---- MODULE Spec2Model ----
(***************************************************************************)
(* SequentialExecutor::Execute of onnxruntime                              *)
(* (core/framework/sequential_executor.cc): the public entry point with    *)
(* its run registry and partial-run cursor, the node loop over a window of *)
(* the execution plan, the fence hooks and the release of node values.     *)
(*                                                                         *)
(* Program counters, plan positions, to_be_freed indices and hook indices  *)
(* are 0-based as in the source; TLA+ sequences are 1-based, so position k *)
(* of a vector v is v[k + 1].                                              *)
(***************************************************************************)
EXTENDS Integers, Sequences, FiniteSets, TLC

VARIABLES
  session_state,                 \* the plan, kernels and flags of the session (read-only)
  only_execute_path_to_fetches_, \* executor member: path pruning requested
  terminate_flag_,               \* executor member: const bool& set by the session
  graph_runs_,                   \* session_state.graph_runs_: run id -> frame
  graph_runs_counter_,           \* session_state.graph_runs_counter_
  graph_runs_lock_,              \* session_state.graph_runs_lock_: holder, or NoThread
  frames,                        \* every ExecutionFrame constructed so far
  th,                            \* per calling thread: the locals of Execute
  crashed,                       \* the process died of undefined behaviour
  faults,                        \* failures the environment has injected so far
  finished                       \* history: run ids whose window reached plan end

vars == <<session_state, only_execute_path_to_fetches_, terminate_flag_, graph_runs_,
          graph_runs_counter_, graph_runs_lock_, frames, th, crashed, faults, finished>>

cfgVars == <<session_state, only_execute_path_to_fetches_>>

----------------------------------------------------------------------------
\* Bounds of the model.

\* longest execution plan
MaxPlan == 3
\* Execute calls made by the caller of the sequential specification
MaxCalls == 3
\* failures injected in one behaviour: failing kernels, failing frame calls
\* and settings of the termination flag
MaxFaults == 1
\* longest execution plan of the concurrent specification
MaxPlanConc == 1
\* Execute calls made by each caller of the concurrent specification
MaxCallsConc == 2

\* width in bits of a run id in the model (int64_t in the source)
RunIdBits == 5

\* the largest and the smallest value of a run id
INT64_MAX == 2^(RunIdBits - 1) - 1
INT64_MIN == -(2^(RunIdBits - 1))

Threads == {1, 2}
\* graph_runs_lock_ when no thread holds it
NoThread == 0
\* a frame pointer that points at no frame
NoFrame == 0
\* a null kernel pointer, a null reachability set
NULL == [null |-> TRUE]
\* graph_runs_.end(); an iterator to the entry of run id k is <<k>>
MapEnd == <<>>

\* The run id sentinels; the header that sets their values is not part of
\* the sources, they are two distinct negative numbers.
DEFAULT_RUN_ID == -1
DEFAULT_PARTIAL_RUN_ID == -2

----------------------------------------------------------------------------
\* Status values (common::Status): category, code, message.

StatusOK == [category |-> "NONE", code |-> "OK", msg |-> <<>>]

MakeStatus(category, code, msg) == [category |-> category, code |-> code, msg |-> msg]

IsOK(status) == status.code = "OK"

\* What a kernel's Compute can do: return OK, return a failure status, or
\* throw a std::exception.
ComputeOutcomes ==
  { [kind |-> "status", status |-> StatusOK],
    [kind |-> "status", status |-> MakeStatus("ONNXRUNTIME", "FAIL", <<"kernel failed">>)],
    [kind |-> "status", status |-> MakeStatus("SYSTEM", "INVALID_ARGUMENT", <<"bad input">>)],
    [kind |-> "exception", what |-> <<"what()">>] }

----------------------------------------------------------------------------
\* The session: graph nodes, kernels, execution plan.

\* The kinds of node a plan is made of: an operator whose node has no fence,
\* one whose node has fences, a YieldOp (its node has fences), and a node the
\* session holds no kernel for.
NodeKinds == {"Op", "FencedOp", "YieldOp", "NoKernel"}

KindIsYield(kind) == kind = "YieldOp"
KindIsFenced(kind) == kind \in {"FencedOp", "YieldOp"}

\* Node metadata of the graph viewer: name and op type.
NodeOfKind(n, kind) ==
  [ Name   |-> ToString(n),
    OpType |-> IF KindIsYield(kind) THEN "YieldOp" ELSE "Op" ]

\* The kernel bound to a node (NULL when the session has none), with what
\* its OpKernelContext exposes: which inputs, implicit inputs and outputs
\* carry a fence.  Input 0 is declared OrtMemTypeCPUInput.
KernelOfKind(n, kind) ==
  IF kind = "NoKernel" THEN NULL
  ELSE [ null               |-> FALSE,
         OpName             |-> IF KindIsYield(kind) THEN "YieldOp" ELSE "Op",
         Provider           |-> "CUDAExecutionProvider",
         ExecQueueId        |-> 1,
         InputMemoryType    |-> <<"OrtMemTypeCPUInput", "OrtMemTypeDefault", "OrtMemTypeDefault">>,
         InputFence         |-> <<TRUE, FALSE, TRUE>>,
         ImplicitInputFence |-> <<TRUE>>,
         OutputFence        |-> <<TRUE, FALSE>> ]

\* The planner's plan over n nodes of the given kinds.  The node at plan
\* position k has node index n - 1 - k, consumes value k and produces value
\* k + 1; value s is freed by the node after its consumer, the last two
\* values by the last node (so the free ranges hold 0, 1 and 2 values).
NodeIndexAt(k, n) == n - 1 - k

FreePosition(s, n) == IF s + 1 < n - 1 THEN s + 1 ELSE n - 1

FreedAt(k, n) == {s \in 0..(n - 1) : FreePosition(s, n) = k}

BuildPlan(n) ==
  [ i \in 1..n |->
      LET k == i - 1
          fr == FreedAt(k, n)
      IN [ node_index      |-> NodeIndexAt(k, n),
           free_from_index |-> IF fr = {} THEN 0 ELSE CHOOSE s \in fr : \A s2 \in fr : s <= s2,
           free_to_index   |-> IF fr = {} THEN -1 ELSE CHOOSE s \in fr : \A s2 \in fr : s >= s2 ] ]

\* The last plan position that consumes value s.
LastConsumer(s) == s

BuildSession(kinds, transfer, to_be_executed) ==
  LET n == Len(kinds)
  IN [ execution_plan    |-> BuildPlan(n),
       to_be_freed       |-> [i \in 1..n |-> i - 1],
       nodes             |-> [nd \in 0..(n - 1) |-> NodeOfKind(nd, kinds[n - nd])],
       kernels           |-> [nd \in 0..(n - 1) |-> KernelOfKind(nd, kinds[n - nd])],
       node_has_fence    |-> [nd \in 0..(n - 1) |-> KindIsFenced(kinds[n - nd])],
       transfer_intermidiate_tensor_ownership |-> transfer,
       to_be_executed_nodes |-> to_be_executed ]

KindSeqs(maxLen, kindSet) == UNION { [1..n -> kindSet] : n \in 0..maxLen }

\* The reachability sets the session may hold for the requested fetches:
\* none, or every node but one.
ToBeExecutedChoices(n) ==
  {NULL} \cup { [null |-> FALSE, nodes |-> (0..(n - 1)) \ {x}] : x \in 0..(n - 1) }

exec_plan_vec == session_state.execution_plan
exec_plan_size == Len(exec_plan_vec)

GetKernel(node_index) == session_state.kernels[node_index]
GetNode(node_index) == session_state.nodes[node_index]
NodeHasFence(node_index) == session_state.node_has_fence[node_index]
GetTransferIntermidiateTensorOwnership == session_state.transfer_intermidiate_tensor_ownership
GetToBeExecutedNodes == session_state.to_be_executed_nodes
kCpuExecutionProvider == "CPUExecutionProvider"

----------------------------------------------------------------------------
\* Fence hooks and value releases, as the events a frame has seen.

Ev(hook, node, arg, index, provider) ==
  [hook |-> hook, node |-> node, arg |-> arg, index |-> index, provider |-> provider]

\* The 0-based indices below count whose entry of present is TRUE, ascending.
FencedIndices(present) ==
  SelectSeq([i \in 1..Len(present) |-> i - 1], LAMBDA i : present[i + 1])

InputMemoryType(kernel, input_index) ==
  IF input_index + 1 <= Len(kernel.InputMemoryType)
    THEN kernel.InputMemoryType[input_index + 1]
    ELSE "OrtMemTypeDefault"

\* lines 377-380 and 388-391: the provider handed to BeforeUsingAsInput
InputProviderType(kernel, input_index) ==
  IF InputMemoryType(kernel, input_index) = "OrtMemTypeCPUInput"
    THEN kCpuExecutionProvider
    ELSE kernel.Provider

\* "sync before compute": the three loops of lines 373-402 (and 198-227)
BeforeHooks(node_index) ==
  LET k == GetKernel(node_index)
      ins == FencedIndices(k.InputFence)
      imps == FencedIndices(k.ImplicitInputFence)
      outs == FencedIndices(k.OutputFence)
  IN IF ~NodeHasFence(node_index) THEN <<>>
     ELSE [j \in 1..Len(ins) |->
             Ev("BeforeUsingAsInput", node_index, "Input", ins[j], InputProviderType(k, ins[j]))]
          \o [j \in 1..Len(imps) |->
             Ev("BeforeUsingAsInput", node_index, "ImplicitInput", imps[j], InputProviderType(k, imps[j]))]
          \o [j \in 1..Len(outs) |->
             Ev("BeforeUsingAsOutput", node_index, "Output", outs[j], k.Provider)]

\* AfterHooks with the loop over the outputs first.
AfterHooks_OutputsFirst(node_index) ==
  LET k == GetKernel(node_index)
      ins == FencedIndices(k.InputFence)
      imps == FencedIndices(k.ImplicitInputFence)
      outs == FencedIndices(k.OutputFence)
  IN IF ~NodeHasFence(node_index) THEN <<>>
     ELSE [j \in 1..Len(outs) |-> Ev("AfterUsedAsOutput", node_index, "Output", outs[j], "")]
          \o [j \in 1..Len(ins) |-> Ev("AfterUsedAsInput", node_index, "Input", ins[j], "")]
          \o [j \in 1..Len(imps) |-> Ev("AfterUsedAsInput", node_index, "ImplicitInput", imps[j], "")]

\* "sync after compute for outputs": the three loops of lines 508-529
AfterHooks(node_index) ==
  LET k == GetKernel(node_index)
      ins == FencedIndices(k.InputFence)
      imps == FencedIndices(k.ImplicitInputFence)
      outs == FencedIndices(k.OutputFence)
  IN IF ~NodeHasFence(node_index) THEN <<>>
     ELSE [j \in 1..Len(ins) |-> Ev("AfterUsedAsInput", node_index, "Input", ins[j], "")]
          \o [j \in 1..Len(imps) |-> Ev("AfterUsedAsInput", node_index, "ImplicitInput", imps[j], "")]
          \o [j \in 1..Len(outs) |-> Ev("AfterUsedAsOutput", node_index, "Output", outs[j], "")]

\* ReleaseNodeMLValues that releases every value of to_be_freed up to
\* free_to_index.
ReleaseNodeMLValues_FromStart(node_exec_plan) ==
  [ j \in 1..(node_exec_plan.free_to_index + 1) |->
      Ev("ReleaseMLValue", node_exec_plan.node_index, "Value",
         session_state.to_be_freed[j], "") ]

\* ReleaseNodeMLValues with free_to_index taken as an excluded bound.
ReleaseNodeMLValues_Exclusive(node_exec_plan) ==
  [ j \in 1..(node_exec_plan.free_to_index - node_exec_plan.free_from_index) |->
      Ev("ReleaseMLValue", node_exec_plan.node_index, "Value",
         session_state.to_be_freed[node_exec_plan.free_from_index + j], "") ]

\* ReleaseNodeMLValues: frame.ReleaseMLValue(to_be_freed[i]) for i from
\* free_from_index to free_to_index, both included.
ReleaseNodeMLValues(node_exec_plan) ==
  [ j \in 1..(node_exec_plan.free_to_index - node_exec_plan.free_from_index + 1) |->
      Ev("ReleaseMLValue", node_exec_plan.node_index, "Value",
         session_state.to_be_freed[node_exec_plan.free_from_index + j], "") ]

ComputeEvent(node_index, code) == Ev("Compute", node_index, code, 0, "")

----------------------------------------------------------------------------
\* Frames and the locals of one Execute call.

\* The locals of Execute are named as in the source.  Histories: arg is the
\* run_id the call was entered with, log0 the length of the frame's log when
\* the window began, term0 that the termination flag was set when the window
\* began and has stayed set, stale that the call's run id had already
\* executed through the end of the plan, ret how the last call left Execute.
\*
\* ExecutionFrame as constructed: program_counter_ is 0.  log is the history
\* of what the executor did on the frame; users is the history of the run
\* ids under which the frame was executed; failed records that an invocation
\* on the frame returned a failure.
NewFrame ==
  [program_counter_ |-> 0, log |-> <<>>, alive |-> TRUE, users |-> {}, failed |-> FALSE]

NoReturn == [kind |-> "none", status |-> StatusOK]

IdleThread(budget) ==
  [ at                  |-> "idle",
    budget              |-> budget,
    calls               |-> 0,
    arg                 |-> DEFAULT_RUN_ID,
    run_id              |-> DEFAULT_RUN_ID,
    partial             |-> FALSE,
    frame               |-> NoFrame,
    it                  |-> MapEnd,
    program_counter_start |-> 0,
    program_counter     |-> 0,
    program_counter_end |-> 0,
    compute_status      |-> StatusOK,
    log0                |-> 0,
    term0               |-> FALSE,
    stale               |-> FALSE,
    ret                 |-> NoReturn ]

At(t, label) == ~crashed /\ th[t].at = label

NextFrame == Len(frames) + 1

\* The frame of thread t's call.
Frame(t) == frames[th[t].frame]

\* Returned with every way out of Execute a returned Status.
Returned_AsStatus(t, kind, status) ==
  [th[t] EXCEPT !.at = "idle", !.calls = @ + 1, !.ret = [kind |-> "status", status |-> status]]

\* The call of thread t leaves Execute: kind is "status" for a returned
\* Status, "throw" for an exception leaving Execute (ORT_ENFORCE).
Returned(t, kind, status) ==
  [th[t] EXCEPT !.at = "idle", !.calls = @ + 1, !.ret = [kind |-> kind, status |-> status]]

EnforceFailure == MakeStatus("ONNXRUNTIME", "FAIL", <<"ORT_ENFORCE">>)

\* TerminatedStatus with a code of its own.
TerminatedStatus_Dedicated ==
  MakeStatus("ONNXRUNTIME", "TERMINATED", <<"Exiting due to terminate flag being set to true.">>)

\* lines 322-325: the status returned when terminate_flag_ is set
TerminatedStatus ==
  MakeStatus("ONNXRUNTIME", "FAIL", <<"Exiting due to terminate flag being set to true.">>)

MissingKernelStatus(node_index) ==
  MakeStatus("ONNXRUNTIME", "FAIL", <<"Got nullptr from GetKernel for node: ", GetNode(node_index).Name>>)

\* ComputeFailureStatus with a fixed category and code.
ComputeFailureStatus_Fixed(node_index, compute_status) ==
  MakeStatus("ONNXRUNTIME", "FAIL",
             <<"Non-zero status code returned while running ", GetNode(node_index).OpType,
               " node. Name:'", GetNode(node_index).Name, "' Status Message: ">>
             \o compute_status.msg)

\* lines 459-470: the status returned for a failed Compute
ComputeFailureStatus(node_index, compute_status) ==
  MakeStatus(compute_status.category, compute_status.code,
             <<"Non-zero status code returned while running ", GetNode(node_index).OpType,
               " node. Name:'", GetNode(node_index).Name, "' Status Message: ">>
             \o compute_status.msg)

\* lines 439-452: the status of Compute, a std::exception caught and converted
ComputeStatus(outcome) ==
  IF outcome.kind = "exception"
    THEN MakeStatus("ONNXRUNTIME", "RUNTIME_EXCEPTION", outcome.what)
    ELSE outcome.status

\* A run id beyond every id the session hands out within the bounds.
NeverIssuedRunId == MaxCalls + 2 * MaxCallsConc + 1

\* The run ids a caller may pass: the two sentinels, a negative number that
\* is no sentinel, every id handed out so far and one that never is.
RunIdArgs ==
  {DEFAULT_RUN_ID, DEFAULT_PARTIAL_RUN_ID, -3, NeverIssuedRunId}
  \cup (0..(graph_runs_counter_ - 1))
  \cup (IF graph_runs_lock_ = NoThread THEN DOMAIN graph_runs_ ELSE {})

----------------------------------------------------------------------------
\* Execute(session_state, feeds, fetches, ..., run_id), lines 126-250.

Min(a, b) == IF a < b THEN a ELSE b

\* The callers serialise the calls on one run id (two callers driving the
\* same id at once are outside the contract).
NobodyRuns(t, rid) ==
  \A u \in Threads \ {t} : th[u].at = "idle" \/ th[u].run_id # rid

\* The history kept of a destroyed frame is dropped when its caller makes the
\* next call.
Forget(fs, f) ==
  IF f # NoFrame /\ ~fs[f].alive THEN [fs EXCEPT ![f] = [NewFrame EXCEPT !.alive = FALSE]] ELSE fs

Enter(t, rid, partial) ==
  [th[t] EXCEPT !.arg = rid, !.run_id = rid, !.partial = partial, !.ret = NoReturn,
                !.frame = NoFrame, !.it = MapEnd, !.program_counter_start = 0,
                !.program_counter = 0, !.program_counter_end = 0,
                !.compute_status = StatusOK, !.log0 = 0, !.term0 = FALSE,
                !.stale = (rid \in finished)]

\* FullRun that counts the run in graph_runs_counter_.
FullRun_CountsRun(t) ==
  /\ At(t, "idle") /\ th[t].calls < th[t].budget
  /\ frames' = Append(Forget(frames, th[t].frame), [NewFrame EXCEPT !.users = {DEFAULT_RUN_ID}])
  /\ th' = [th EXCEPT ![t] = [Enter(t, DEFAULT_RUN_ID, FALSE) EXCEPT
                                !.at = "loop", !.frame = NextFrame,
                                !.program_counter_end = exec_plan_size,
                                !.term0 = terminate_flag_]]
  /\ graph_runs_counter_' = (graph_runs_counter_ + 1) % (INT64_MAX + 1)
  /\ UNCHANGED <<cfgVars, terminate_flag_, graph_runs_, graph_runs_lock_, crashed,
                 faults, finished>>

\* lines 135-137: run_id == DEFAULT_RUN_ID, a frame local to the call and
\* the inner Execute over [0, exec_plan_size).
FullRun(t) ==
  /\ At(t, "idle") /\ th[t].calls < th[t].budget
  /\ frames' = Append(Forget(frames, th[t].frame), [NewFrame EXCEPT !.users = {DEFAULT_RUN_ID}])
  /\ th' = [th EXCEPT ![t] = [Enter(t, DEFAULT_RUN_ID, FALSE) EXCEPT
                                !.at = "loop", !.frame = NextFrame,
                                !.program_counter_end = exec_plan_size,
                                !.term0 = terminate_flag_]]
  /\ UNCHANGED <<cfgVars, terminate_flag_, graph_runs_, graph_runs_counter_,
                 graph_runs_lock_, crashed, faults, finished>>

\* lines 146-150: run_id == DEFAULT_PARTIAL_RUN_ID, make_unique<ExecutionFrame>
NewPartialRun(t) ==
  /\ At(t, "idle") /\ th[t].calls < th[t].budget
  /\ frames' = Append(Forget(frames, th[t].frame), NewFrame)
  /\ th' = [th EXCEPT ![t] = [Enter(t, DEFAULT_PARTIAL_RUN_ID, TRUE) EXCEPT
                                !.at = "lock_new", !.frame = NextFrame]]
  /\ UNCHANGED <<cfgVars, terminate_flag_, graph_runs_, graph_runs_counter_,
                 graph_runs_lock_, crashed, faults, finished>>

\* line 151: std::lock_guard<OrtMutex> lock(session_state.graph_runs_lock_)
LockNew(t) ==
  /\ At(t, "lock_new")
  /\ graph_runs_lock_ = NoThread
  /\ graph_runs_lock_' = t
  /\ th' = [th EXCEPT ![t].at = "insert"]
  /\ UNCHANGED <<cfgVars, terminate_flag_, graph_runs_, graph_runs_counter_, frames,
                 crashed, faults, finished>>

\* line 152: graph_runs_.insert(make_pair(graph_runs_counter_, move(p_frame))).first
\* std::map::insert leaves an existing entry alone and returns its iterator;
\* the frame moved into the pair is then destroyed with the pair.
Insert(t) ==
  /\ At(t, "insert")
  /\ IF graph_runs_counter_ \in DOMAIN graph_runs_
       THEN /\ frames' = [frames EXCEPT ![th[t].frame].alive = FALSE]
            /\ UNCHANGED graph_runs_
       ELSE /\ graph_runs_' = (graph_runs_counter_ :> th[t].frame) @@ graph_runs_
            /\ UNCHANGED frames
  /\ th' = [th EXCEPT ![t].at = "assign", ![t].it = <<graph_runs_counter_>>]
  /\ UNCHANGED <<cfgVars, terminate_flag_, graph_runs_counter_, graph_runs_lock_,
                 crashed, faults, finished>>

\* AssignRunId without the increment of graph_runs_counter_.
AssignRunId_NoIncrement(t) ==
  /\ At(t, "assign")
  /\ th' = [th EXCEPT ![t].at = "scan", ![t].run_id = graph_runs_counter_]
  /\ graph_runs_lock_' = NoThread
  /\ UNCHANGED <<cfgVars, terminate_flag_, graph_runs_, graph_runs_counter_, frames,
                 crashed, faults, finished>>

\* lines 153-157: ORT_ENFORCE(run_id < INT64_MAX) reads run_id, which holds
\* what the caller passed (the sentinel); run_id = counter; counter += 1; the
\* lock_guard's scope ends.  The increment of a counter that holds INT64_MAX
\* overflows a signed integer, which is undefined: the counter wraps, or the
\* process dies.
AssignRunId(t) ==
  /\ At(t, "assign")
  /\ IF th[t].run_id < INT64_MAX
       THEN \/ /\ th' = [th EXCEPT ![t].at = "scan", ![t].run_id = graph_runs_counter_]
               /\ graph_runs_counter_' =
                    (IF graph_runs_counter_ < INT64_MAX
                       THEN graph_runs_counter_ + 1 ELSE INT64_MIN)
               /\ graph_runs_lock_' = NoThread
               /\ UNCHANGED crashed
            \/ /\ graph_runs_counter_ = INT64_MAX
               /\ crashed' = TRUE
               /\ UNCHANGED <<th, graph_runs_counter_, graph_runs_lock_>>
       ELSE /\ th' = [th EXCEPT ![t] = Returned(t, "throw", EnforceFailure)]
            /\ graph_runs_lock_' = NoThread
            /\ UNCHANGED <<graph_runs_counter_, crashed>>
  /\ UNCHANGED <<cfgVars, terminate_flag_, graph_runs_, frames, faults, finished>>

\* line 158: an explicit run id; ORT_ENFORCE(run_id >= 0) throws
Resume(t, rid) ==
  /\ At(t, "idle") /\ th[t].calls < th[t].budget
  /\ rid \in RunIdArgs \ {DEFAULT_RUN_ID, DEFAULT_PARTIAL_RUN_ID}
  /\ NobodyRuns(t, rid)
  /\ th' = [th EXCEPT ![t] =
              IF rid >= 0
                THEN [Enter(t, rid, TRUE) EXCEPT !.at = "find"]
                ELSE [Enter(t, rid, TRUE) EXCEPT
                        !.calls = @ + 1, !.ret = [kind |-> "throw", status |-> EnforceFailure]]]
  /\ frames' = Forget(frames, th[t].frame)
  /\ UNCHANGED <<cfgVars, terminate_flag_, graph_runs_, graph_runs_counter_,
                 graph_runs_lock_, crashed, faults, finished>>

\* Another thread is inside its locked region, about to change the map.
MapWriterActive(t) == \E u \in Threads \ {t} : th[u].at \in {"insert", "erase"}

\* FindResult that falls back on some entry when the id has none.
FindResult_AnyEntry(run_id) ==
  IF run_id \in DOMAIN graph_runs_ THEN <<run_id>>
  ELSE IF DOMAIN graph_runs_ # {} THEN <<CHOOSE k \in DOMAIN graph_runs_ : TRUE>>
  ELSE MapEnd

\* The iterator graph_runs_.find(run_id) returns.
FindResult(run_id) == IF run_id \in DOMAIN graph_runs_ THEN <<run_id>> ELSE MapEnd

\* lines 160-165: find (made without the lock), ORT_ENFORCE(it != end()),
\* UpdateFeedAndFetches, frame = it->second.  A find that runs while another
\* thread changes the map is a data race: it may return the entry, miss it,
\* or bring the process down.
Find(t) ==
  /\ At(t, "find")
  /\ \/ \E it \in {FindResult(th[t].run_id)} \cup (IF MapWriterActive(t) THEN {MapEnd} ELSE {}) :
          /\ th' = [th EXCEPT ![t] =
                      IF it = MapEnd
                        THEN Returned(t, "throw", EnforceFailure)
                        ELSE [@ EXCEPT !.at = "scan", !.it = it, !.frame = graph_runs_[it[1]]]]
          /\ UNCHANGED crashed
     \/ /\ MapWriterActive(t)
        /\ crashed' = TRUE
        /\ UNCHANGED th
  /\ UNCHANGED <<cfgVars, terminate_flag_, graph_runs_, graph_runs_counter_,
                 graph_runs_lock_, frames, faults, finished>>

\* KeepScanning that stops after a YieldOp instead of at it.
KeepScanning_PastYield(program_counter_end, program_counter_, null_is_yield) ==
  /\ program_counter_end < exec_plan_size
  /\ \/ program_counter_end = program_counter_
     \/ LET k == GetKernel(exec_plan_vec[program_counter_end].node_index)
        IN IF k.null THEN ~null_is_yield ELSE k.OpName # "YieldOp"

\* KeepScanning without the exception for the window's first position.
KeepScanning_NoStartException(program_counter_end, program_counter_, null_is_yield) ==
  /\ program_counter_end < exec_plan_size
  /\ LET k == GetKernel(exec_plan_vec[program_counter_end + 1].node_index)
     IN IF k.null THEN ~null_is_yield ELSE k.OpName # "YieldOp"

\* KeepScanning with the exception extended to the position after the first.
KeepScanning_TwoAtStart(program_counter_end, program_counter_, null_is_yield) ==
  /\ program_counter_end < exec_plan_size
  /\ LET k == GetKernel(exec_plan_vec[program_counter_end + 1].node_index)
     IN \/ (IF k.null THEN ~null_is_yield ELSE k.OpName # "YieldOp")
        \/ program_counter_end <= program_counter_ + 1

\* Whether the loop condition of lines 175-177 holds at program_counter_end:
\* GetKernel(...)->KernelDef().OpName() != "YieldOp" is evaluated first, on a
\* null kernel too, where the comparison's result is null_is_yield.
KeepScanning(program_counter_end, program_counter_, null_is_yield) ==
  /\ program_counter_end < exec_plan_size
  /\ LET k == GetKernel(exec_plan_vec[program_counter_end + 1].node_index)
     IN \/ (IF k.null THEN ~null_is_yield ELSE k.OpName # "YieldOp")
        \/ program_counter_end = program_counter_

RECURSIVE ScanFrom(_, _, _)
ScanFrom(program_counter_end, program_counter_, null_is_yield) ==
  IF KeepScanning(program_counter_end, program_counter_, null_is_yield)
    THEN ScanFrom(program_counter_end + 1, program_counter_, null_is_yield)
    ELSE program_counter_end

\* lines 173-179: the end of the window that starts at program_counter_
ProgramCounterEnd(program_counter_, null_is_yield) ==
  ScanFrom(program_counter_, program_counter_, null_is_yield)

\* The scan dereferenced a null kernel: every position it tested.
ScanReadsNull(program_counter_, program_counter_end) ==
  \E p \in program_counter_..Min(program_counter_end, exec_plan_size - 1) :
     GetKernel(exec_plan_vec[p + 1].node_index).null

\* lines 173-181: the scan, then the call of the inner Execute over
\* [frame->program_counter_, program_counter_end).  Dereferencing a null
\* kernel, or a frame that was destroyed, is undefined: the scan goes on with
\* what it read, or the process dies.
Scan(t) ==
  /\ At(t, "scan")
  /\ LET start == Frame(t).program_counter_
     IN \/ \E null_is_yield \in BOOLEAN :
             /\ th' = [th EXCEPT ![t].at = "loop",
                                 ![t].program_counter_start = start,
                                 ![t].program_counter = start,
                                 ![t].program_counter_end = ProgramCounterEnd(start, null_is_yield),
                                 ![t].log0 = Len(Frame(t).log),
                                 ![t].term0 = terminate_flag_]
             /\ frames' = [frames EXCEPT ![th[t].frame].users = @ \cup {th[t].run_id}]
             /\ UNCHANGED crashed
        \/ /\ \/ ~Frame(t).alive
              \/ \E g \in BOOLEAN : ScanReadsNull(start, ProgramCounterEnd(start, g))
           /\ crashed' = TRUE
           /\ UNCHANGED <<th, frames>>
  /\ UNCHANGED <<cfgVars, terminate_flag_, graph_runs_, graph_runs_counter_,
                 graph_runs_lock_, faults, finished>>

----------------------------------------------------------------------------
\* The inner Execute(session_state, ..., frame, program_counter_start,
\* program_counter_end), lines 252-616.

AppendLog(t, events) == [frames EXCEPT ![th[t].frame].log = @ \o events]

NodeExecPlan(t) == exec_plan_vec[th[t].program_counter + 1]

\* SkipNode that prunes nothing.
SkipNode_Never(node_index) == FALSE

\* lines 272-273 and 330: the node is pruned from this run
SkipNode(node_index) ==
  /\ only_execute_path_to_fetches_
  /\ ~GetToBeExecutedNodes.null
  /\ node_index \notin GetToBeExecutedNodes.nodes

\* TerminateRequested that lets the first node of a window through.
TerminateRequested_AfterFirst(t) ==
  terminate_flag_ /\ th[t].program_counter > th[t].program_counter_start

\* TerminateRequested read after the test for a pruned node.
TerminateRequested_AfterPruning(t) ==
  terminate_flag_ /\ ~SkipNode(NodeExecPlan(t).node_index)

\* line 322: if (terminate_flag_), at the top of the iteration
TerminateRequested(t) == terminate_flag_

\* FailFrame that undoes what the window did on the frame.
FailFrame_RollsBack(t) ==
  [frames EXCEPT ![th[t].frame].failed = TRUE,
                 ![th[t].frame].log = SubSeq(@, 1, th[t].log0)]

\* A failure status leaves Execute through ORT_RETURN_IF_ERROR.
FailFrame(t) == [frames EXCEPT ![th[t].frame].failed = TRUE]

\* lines 320-402: the top of one loop iteration, up to the hooks issued
\* before Compute.
LoopTop(t) ==
  /\ At(t, "loop")
  /\ IF th[t].program_counter >= th[t].program_counter_end
       THEN /\ th' = [th EXCEPT ![t].at = "tail"]
            /\ UNCHANGED frames
       ELSE LET node_index == NodeExecPlan(t).node_index
            IN IF TerminateRequested(t)
                 THEN /\ th' = [th EXCEPT ![t] = Returned(t, "status", TerminatedStatus)]
                      /\ frames' = FailFrame(t)
                 ELSE IF SkipNode(node_index)
                   THEN /\ th' = [th EXCEPT ![t].program_counter = @ + 1]
                        /\ UNCHANGED frames
                   ELSE IF GetKernel(node_index).null
                     THEN /\ th' = [th EXCEPT ![t] =
                                      Returned(t, "status", MissingKernelStatus(node_index))]
                          /\ frames' = FailFrame(t)
                     ELSE /\ th' = [th EXCEPT ![t].at = "compute"]
                          /\ frames' = AppendLog(t, BeforeHooks(node_index))
  /\ UNCHANGED <<cfgVars, terminate_flag_, graph_runs_, graph_runs_counter_,
                 graph_runs_lock_, crashed, faults, finished>>

\* lines 429-471: p_op_kernel->Compute and the return on its failure
Compute(t) ==
  /\ At(t, "compute")
  /\ \E outcome \in ComputeOutcomes :
       LET node_index == NodeExecPlan(t).node_index
           compute_status == ComputeStatus(outcome)
           logged == AppendLog(t, <<ComputeEvent(node_index, compute_status.code)>>)
       IN IF IsOK(compute_status)
            THEN /\ th' = [th EXCEPT ![t].at = "post", ![t].compute_status = compute_status]
                 /\ frames' = logged
                 /\ UNCHANGED faults
            ELSE /\ faults < MaxFaults
                 /\ faults' = faults + 1
                 /\ th' = [th EXCEPT ![t] =
                             [Returned(t, "status", ComputeFailureStatus(node_index, compute_status))
                                EXCEPT !.compute_status = compute_status]]
                 /\ frames' = [logged EXCEPT ![th[t].frame].failed = TRUE]
  /\ UNCHANGED <<cfgVars, terminate_flag_, graph_runs_, graph_runs_counter_,
                 graph_runs_lock_, crashed, finished>>

\* lines 507-557: the hooks after Compute, then the node's value releases
PostCompute(t) ==
  /\ At(t, "post")
  /\ frames' = AppendLog(t, AfterHooks(NodeExecPlan(t).node_index)
                            \o ReleaseNodeMLValues(NodeExecPlan(t)))
  /\ th' = [th EXCEPT ![t].at = "loop", ![t].program_counter = @ + 1]
  /\ UNCHANGED <<cfgVars, terminate_flag_, graph_runs_, graph_runs_counter_,
                 graph_runs_lock_, crashed, faults, finished>>

\* What the frame's own calls can do after the loop: all succeed,
\* GeneratePatterns / UpdateMemoryPatternGroupCache fails (lines 582-599), or
\* GetOutputs fails (lines 140 and 232).
FrameCallOutcomes ==
  {"ok"} \cup (IF faults < MaxFaults THEN {"patterns fail", "outputs fail"} ELSE {})

FaultsAfter(outcome) == IF outcome = "ok" THEN faults ELSE faults + 1

PatternsFailure == MakeStatus("ONNXRUNTIME", "FAIL", <<"GeneratePatterns">>)
OutputsFailure == MakeStatus("ONNXRUNTIME", "FAIL", <<"GetOutputs">>)

\* lines 582-616 and 137-141: the end of the inner Execute of a full run,
\* GetOutputs, and the return; the local frame dies with the call.
FullTail(t) ==
  /\ At(t, "tail") /\ ~th[t].partial
  /\ \E outcome \in FrameCallOutcomes :
       /\ th' = [th EXCEPT ![t] =
                   Returned(t, "status",
                            CASE outcome = "ok" -> StatusOK
                              [] outcome = "patterns fail" -> PatternsFailure
                              [] outcome = "outputs fail" -> OutputsFailure)]
       /\ frames' = [frames EXCEPT ![th[t].frame].alive = FALSE,
                                   ![th[t].frame].failed = (outcome # "ok")]
       /\ faults' = FaultsAfter(outcome)
  /\ UNCHANGED <<cfgVars, terminate_flag_, graph_runs_, graph_runs_counter_,
                 graph_runs_lock_, crashed, finished>>

\* NextProgramCounter stepping over the node at the window's end whatever
\* the ownership-transfer flag.
NextProgramCounter_AlwaysSkip(program_counter_end) == program_counter_end + 1

\* lines 236-240: where the next partial run starts
NextProgramCounter(program_counter_end) ==
  IF GetTransferIntermidiateTensorOwnership
    THEN program_counter_end + 1
    ELSE program_counter_end

\* lines 184-228: the hooks issued for the node at program_counter_end
FenceWaitHooks(program_counter_end) ==
  IF program_counter_end < exec_plan_size
    THEN BeforeHooks(exec_plan_vec[program_counter_end + 1].node_index)
    ELSE <<>>

\* lines 191-194: the node at program_counter_end has no kernel
FenceWaitMissingKernel(program_counter_end) ==
  /\ program_counter_end < exec_plan_size
  /\ GetKernel(exec_plan_vec[program_counter_end + 1].node_index).null

\* lines 582-616 and 181-243: the end of the inner Execute of a partial run,
\* the fence-wait-only pass, GetOutputs, the new cursor and the test for the
\* end of the plan.
AfterWindow(t) ==
  /\ At(t, "tail") /\ th[t].partial
  /\ LET pce == th[t].program_counter_end
         f == th[t].frame
     IN \E outcome \in FrameCallOutcomes :
          /\ faults' = FaultsAfter(outcome)
          /\ IF outcome = "patterns fail"
               THEN /\ th' = [th EXCEPT ![t] = Returned(t, "status", PatternsFailure)]
                    /\ frames' = FailFrame(t)
                    /\ UNCHANGED finished
             ELSE IF FenceWaitMissingKernel(pce)
               THEN /\ th' = [th EXCEPT ![t] =
                                Returned(t, "status",
                                         MissingKernelStatus(exec_plan_vec[pce + 1].node_index))]
                    /\ frames' = FailFrame(t)
                    /\ UNCHANGED finished
             ELSE IF outcome = "outputs fail"
               THEN /\ th' = [th EXCEPT ![t] = Returned(t, "status", OutputsFailure)]
                    /\ frames' = [frames EXCEPT ![f].log = @ \o FenceWaitHooks(pce),
                                                ![f].failed = TRUE]
                    /\ UNCHANGED finished
             ELSE /\ frames' = [frames EXCEPT ![f].log = @ \o FenceWaitHooks(pce),
                                              ![f].program_counter_ = NextProgramCounter(pce)]
                  /\ th' = [th EXCEPT ![t] =
                              IF NextProgramCounter(pce) = exec_plan_size
                                THEN [@ EXCEPT !.at = "lock_erase"]
                                ELSE Returned(t, "status", StatusOK)]
                  /\ finished' = IF NextProgramCounter(pce) >= exec_plan_size
                                   THEN finished \cup {th[t].run_id}
                                   ELSE finished
  /\ UNCHANGED <<cfgVars, terminate_flag_, graph_runs_, graph_runs_counter_,
                 graph_runs_lock_, crashed>>

\* line 244: std::lock_guard<OrtMutex> lock(session_state.graph_runs_lock_)
LockErase(t) ==
  /\ At(t, "lock_erase")
  /\ graph_runs_lock_ = NoThread
  /\ graph_runs_lock_' = t
  /\ th' = [th EXCEPT ![t].at = "erase"]
  /\ UNCHANGED <<cfgVars, terminate_flag_, graph_runs_, graph_runs_counter_, frames,
                 crashed, faults, finished>>

\* lines 245-249: graph_runs_.erase(it) destroys the frame; the lock_guard's
\* scope ends; return Status::OK()
Erase(t) ==
  /\ At(t, "erase")
  /\ graph_runs_' = [k \in DOMAIN graph_runs_ \ {th[t].it[1]} |-> graph_runs_[k]]
  /\ frames' = [frames EXCEPT ![graph_runs_[th[t].it[1]]].alive = FALSE]
  /\ graph_runs_lock_' = NoThread
  /\ th' = [th EXCEPT ![t] = Returned(t, "status", StatusOK)]
  /\ UNCHANGED <<cfgVars, terminate_flag_, graph_runs_counter_, crashed, faults, finished>>

----------------------------------------------------------------------------
\* The session sets and clears the termination flag out of band.

SetTerminate ==
  /\ ~crashed /\ ~terminate_flag_
  /\ faults < MaxFaults
  /\ faults' = faults + 1
  /\ terminate_flag_' = TRUE
  /\ UNCHANGED <<cfgVars, graph_runs_, graph_runs_counter_, graph_runs_lock_, frames, th,
                 crashed, finished>>

ClearTerminate ==
  /\ ~crashed /\ terminate_flag_
  /\ terminate_flag_' = FALSE
  /\ th' = [t \in Threads |-> [th[t] EXCEPT !.term0 = FALSE]]
  /\ UNCHANGED <<cfgVars, graph_runs_, graph_runs_counter_, graph_runs_lock_, frames,
                 crashed, faults, finished>>

----------------------------------------------------------------------------
\* The specifications.

\* Sessions without a reachability set, over every plan of the given kinds.
Sessions(maxLen, kindSet) ==
  { BuildSession(kinds, transfer, NULL) :
      kinds \in KindSeqs(maxLen, kindSet), transfer \in BOOLEAN }

\* Sessions that hold a reachability set for the requested fetches.
PruningSessions(maxLen, kindSet) ==
  UNION { { BuildSession(kinds, transfer, to_be_executed) :
              transfer \in BOOLEAN, to_be_executed \in ToBeExecutedChoices(Len(kinds)) \ {NULL} } :
          kinds \in KindSeqs(maxLen, kindSet) }

InitShared ==
  /\ terminate_flag_ = FALSE
  /\ graph_runs_ = <<>>
  /\ graph_runs_counter_ = 0
  /\ graph_runs_lock_ = NoThread
  /\ frames = <<>>
  /\ crashed = FALSE
  /\ faults = 0
  /\ finished = {}

\* One caller, every session.
Init ==
  /\ \/ /\ session_state \in Sessions(MaxPlan, NodeKinds)
        /\ only_execute_path_to_fetches_ = FALSE
     \/ /\ session_state \in Sessions(MaxPlan, {"Op", "YieldOp"})
        /\ only_execute_path_to_fetches_ = TRUE
     \/ /\ session_state \in PruningSessions(MaxPlan, {"Op", "YieldOp"})
        /\ only_execute_path_to_fetches_ \in BOOLEAN
  /\ th = [t \in Threads |-> IdleThread(IF t = 1 THEN MaxCalls ELSE 0)]
  /\ InitShared

Next ==
  \/ \E t \in Threads : FullRun(t)
  \/ \E t \in Threads : NewPartialRun(t)
  \/ \E t \in Threads : LockNew(t)
  \/ \E t \in Threads : Insert(t)
  \/ \E t \in Threads : AssignRunId(t)
  \/ \E t \in Threads : \E rid \in RunIdArgs : Resume(t, rid)
  \/ \E t \in Threads : Find(t)
  \/ \E t \in Threads : Scan(t)
  \/ \E t \in Threads : LoopTop(t)
  \/ \E t \in Threads : Compute(t)
  \/ \E t \in Threads : PostCompute(t)
  \/ \E t \in Threads : FullTail(t)
  \/ \E t \in Threads : AfterWindow(t)
  \/ \E t \in Threads : LockErase(t)
  \/ \E t \in Threads : Erase(t)
  \/ SetTerminate
  \/ ClearTerminate

Spec == Init /\ [][Next]_vars

\* Two concurrent callers on one session.
InitConc ==
  /\ session_state \in Sessions(MaxPlanConc, {"Op", "YieldOp"})
  /\ only_execute_path_to_fetches_ = FALSE
  /\ th = [t \in Threads |-> IdleThread(MaxCallsConc)]
  /\ InitShared

SpecConc == InitConc /\ [][Next]_vars

\* One caller on a session whose run-id counter is about to run out of ids.
InitExhaust ==
  /\ session_state \in Sessions(MaxPlanConc, {"Op", "YieldOp"})
  /\ only_execute_path_to_fetches_ = FALSE
  /\ th = [t \in Threads |-> IdleThread(IF t = 1 THEN MaxCalls ELSE 0)]
  /\ terminate_flag_ = FALSE
  /\ graph_runs_ = <<>>
  /\ graph_runs_counter_ \in {INT64_MAX - 1, INT64_MAX}
  /\ graph_runs_lock_ = NoThread
  /\ frames = <<>>
  /\ crashed = FALSE
  /\ faults = 0
  /\ finished = {}

SpecExhaust == InitExhaust /\ [][Next]_vars

\* One caller that starts one partial run and calls Execute again with the
\* run id it got after every return of OK; no kernel or frame call fails and
\* the termination flag stays clear.
InitLive ==
  /\ session_state \in Sessions(MaxPlan, {"Op", "YieldOp"})
  /\ only_execute_path_to_fetches_ = FALSE
  /\ th = [t \in Threads |-> IdleThread(IF t = 1 THEN MaxPlan + 1 ELSE 0)]
  /\ terminate_flag_ = FALSE
  /\ graph_runs_ = <<>>
  /\ graph_runs_counter_ = 0
  /\ graph_runs_lock_ = NoThread
  /\ frames = <<>>
  /\ crashed = FALSE
  /\ faults = MaxFaults
  /\ finished = {}

StartRun(t) == th[t].calls = 0 /\ NewPartialRun(t)

ResumeOwn(t) ==
  /\ th[t].partial /\ th[t].ret.kind = "status" /\ IsOK(th[t].ret.status)
  /\ Resume(t, th[t].run_id)

NextLive ==
  \/ \E t \in Threads : StartRun(t)
  \/ \E t \in Threads : LockNew(t)
  \/ \E t \in Threads : Insert(t)
  \/ \E t \in Threads : AssignRunId(t)
  \/ \E t \in Threads : ResumeOwn(t)
  \/ \E t \in Threads : Find(t)
  \/ \E t \in Threads : Scan(t)
  \/ \E t \in Threads : LoopTop(t)
  \/ \E t \in Threads : Compute(t)
  \/ \E t \in Threads : PostCompute(t)
  \/ \E t \in Threads : AfterWindow(t)
  \/ \E t \in Threads : LockErase(t)
  \/ \E t \in Threads : Erase(t)

\* The caller keeps calling and every call runs to its return.
SpecLive == InitLive /\ [][NextLive]_vars /\ WF_vars(NextLive)

----------------------------------------------------------------------------
\* What the claims are stated with.

\* The node indices of the Compute calls recorded in a log, in order.
ComputedNodes(log) ==
  LET c == SelectSeq(log, LAMBDA e : e.hook = "Compute")
  IN [i \in 1..Len(c) |-> c[i].node]

\* The node indices of the plan entries at positions from..(to - 1), in order.
PlanNodes(from, to) ==
  [i \in 1..(IF to > from THEN to - from ELSE 0) |-> exec_plan_vec[from + i].node_index]

PruningInEffect == only_execute_path_to_fetches_ /\ ~GetToBeExecutedNodes.null

\* The last call of thread t has returned a status.
ReturnedStatus(t) == th[t].at = "idle" /\ th[t].ret.kind = "status"

ReturnedOK(t) == ReturnedStatus(t) /\ IsOK(th[t].ret.status)

FullRunReturnedOK(t) == ReturnedOK(t) /\ th[t].arg = DEFAULT_RUN_ID

ReleasesOf(log, value) ==
  {j \in 1..Len(log) : log[j].hook = "ReleaseMLValue" /\ log[j].index = value}

\* Every value of to_be_freed is released exactly once, after the Compute of
\* the last node that consumes it.
FreesEachValueOnce(log) ==
  \A i \in 1..Len(session_state.to_be_freed) :
     LET value == session_state.to_be_freed[i]
         consumer == exec_plan_vec[LastConsumer(value) + 1].node_index
     IN /\ Cardinality(ReleasesOf(log, value)) = 1
        /\ \A j \in ReleasesOf(log, value) :
              \E c \in 1..(j - 1) : log[c].hook = "Compute" /\ log[c].node = consumer

----------------------------------------------------------------------------
\* C1 as stated: a full run without termination or failure (it returned OK)
\* calls Compute for every plan entry once, in plan order, and releases every
\* value of to_be_freed once, after its last consumer has computed.
\* Refuted by a run with path pruning in effect.
C1_FullRunComputesEveryEntry ==
  \A t \in Threads :
     FullRunReturnedOK(t) =>
       /\ ComputedNodes(Frame(t).log) = PlanNodes(0, exec_plan_size)
       /\ FreesEachValueOnce(Frame(t).log)

\* C1 amended: the same, for a full run in which path pruning is not in
\* effect.
C1_FullRunWithoutPruning ==
  \A t \in Threads :
     FullRunReturnedOK(t) /\ ~PruningInEffect =>
       /\ ComputedNodes(Frame(t).log) = PlanNodes(0, exec_plan_size)
       /\ FreesEachValueOnce(Frame(t).log)

C1_Witness ==
  \E t \in Threads :
     /\ FullRunReturnedOK(t) /\ ~PruningInEffect
     /\ exec_plan_size = MaxPlan
     /\ Cardinality(ReleasesOf(Frame(t).log, MaxPlan - 1)) = 1

----------------------------------------------------------------------------
\* The plan position of a node.
PositionOf(node_index) ==
  CHOOSE k \in 0..(exec_plan_size - 1) : exec_plan_vec[k + 1].node_index = node_index

\* What a full run computes: the plan's nodes, less those pruned.
FullRunSequence ==
  SelectSeq(PlanNodes(0, exec_plan_size), LAMBDA n : ~SkipNode(n))

\* The last call of thread t was the invocation that completed a partial
\* run no invocation of which had failed: it returned OK and its frame has
\* left the registry.
PartialRunCompleted(t) ==
  /\ ReturnedOK(t) /\ th[t].partial
  /\ NextProgramCounter(th[t].program_counter_end) = exec_plan_size
  /\ ~Frame(t).alive /\ ~Frame(t).failed

----------------------------------------------------------------------------
\* C3: a call with the id of a run that has executed through the end of the
\* plan fails fatally: it gets no further than the lookup and leaves Execute
\* by the exception of ORT_ENFORCE.
\* Refuted with ownership transfer enabled: the cursor steps over
\* exec_plan_size, the entry is never erased and the call returns OK.
C3_FinishedRunFailsFatally ==
  \A t \in Threads :
     th[t].stale =>
       /\ th[t].at \in {"idle", "find"}
       /\ th[t].at = "idle" => th[t].ret.kind = "throw"

----------------------------------------------------------------------------
\* C4: when Compute of the node at position k fails (a failure status, or an
\* exception), the invocation computes nothing after k, issues no hook after
\* Compute and releases nothing for k (the failed Compute is the last event
\* on the frame), and returns the compute status's category and code with a
\* message that holds the node's op type and name.
C4_ComputeFailureStopsTheRun ==
  \A t \in Threads :
     th[t].at = "idle" /\ ~IsOK(th[t].compute_status) =>
       LET log == Frame(t).log
           node_index == exec_plan_vec[th[t].program_counter + 1].node_index
           status == th[t].ret.status
       IN /\ th[t].ret.kind = "status"
          /\ status.category = th[t].compute_status.category
          /\ status.code = th[t].compute_status.code
          /\ \E i \in 1..Len(status.msg) : status.msg[i] = GetNode(node_index).OpType
          /\ \E i \in 1..Len(status.msg) : status.msg[i] = GetNode(node_index).Name
          /\ Len(log) >= 1
          /\ log[Len(log)].hook = "Compute" /\ log[Len(log)].node = node_index

C4_Witness ==
  \E t \in Threads :
     /\ th[t].at = "idle" /\ th[t].compute_status.category = "SYSTEM"
     /\ th[t].program_counter >= 1
     /\ NodeHasFence(exec_plan_vec[th[t].program_counter + 1].node_index)

----------------------------------------------------------------------------
\* C5 as stated: when the termination flag is set as a window begins (and
\* stays set), the invocation computes no node, issues no hook, releases
\* nothing and returns the terminated status; for every window, an empty one
\* included.
\* Refuted by an empty window: the flag is read in the loop only.
C5_TerminatedBeforeAnyWindow ==
  \A t \in Threads :
     ReturnedStatus(t) /\ th[t].term0 =>
       /\ th[t].ret.status = TerminatedStatus
       /\ Len(Frame(t).log) = th[t].log0

\* C5 amended: the same, for every window that holds at least one plan entry.
C5_TerminatedBeforeNonEmptyWindow ==
  \A t \in Threads :
     /\ ReturnedStatus(t) /\ th[t].term0
     /\ th[t].program_counter_start < th[t].program_counter_end
     => /\ th[t].ret.status = TerminatedStatus
        /\ Len(Frame(t).log) = th[t].log0

C5_Witness ==
  \E t \in Threads :
     /\ ReturnedStatus(t) /\ th[t].term0
     /\ th[t].program_counter_start < th[t].program_counter_end
     /\ th[t].partial /\ th[t].log0 > 0
     /\ th[t].ret.status = TerminatedStatus

----------------------------------------------------------------------------
\* The fenced argument slots of a node, as <<kind, index>> pairs in the order
\* the claim gives: explicit inputs, implicit inputs, outputs.
SlotsOfKind(arg, present) ==
  LET fenced == {i \in 1..Len(present) : present[i]}
  IN [j \in 1..Cardinality(fenced) |->
        <<arg, (CHOOSE i \in fenced : Cardinality({x \in fenced : x < i}) = j - 1) - 1>>]

FencedSlots(node_index) ==
  IF ~NodeHasFence(node_index) THEN <<>>
  ELSE SlotsOfKind("Input", GetKernel(node_index).InputFence)
       \o SlotsOfKind("ImplicitInput", GetKernel(node_index).ImplicitInputFence)
       \o SlotsOfKind("Output", GetKernel(node_index).OutputFence)

IsHookOn(e, hook, node_index, slot) ==
  e.hook = hook /\ e.node = node_index /\ e.arg = slot[1] /\ e.index = slot[2]

\* The events around the Compute at log[i]: the before-hooks just before it,
\* the after-hooks just after it, then the releases of the node's range.
VisitInOrder(log, i) ==
  LET node_index == log[i].node
      slots == FencedSlots(node_index)
      b == Len(slots)
      plan == exec_plan_vec[PositionOf(node_index) + 1]
      r == plan.free_to_index - plan.free_from_index + 1
  IN /\ i - b >= 1
     /\ \A j \in 1..b :
          IsHookOn(log[i - b + j - 1],
                   IF slots[j][1] = "Output" THEN "BeforeUsingAsOutput" ELSE "BeforeUsingAsInput",
                   node_index, slots[j])
     /\ i + b + r <= Len(log)
     /\ \A j \in 1..b :
          IsHookOn(log[i + j],
                   IF slots[j][1] = "Output" THEN "AfterUsedAsOutput" ELSE "AfterUsedAsInput",
                   node_index, slots[j])
     /\ \A j \in 1..r :
          /\ log[i + b + j].hook = "ReleaseMLValue" /\ log[i + b + j].node = node_index
          /\ log[i + b + j].index = session_state.to_be_freed[plan.free_from_index + j]

\* The visit whose Compute is the last event of frame f is still under way.
VisitUnderWay(f, i) ==
  i = Len(frames[f].log) /\ \E t \in Threads : th[t].at = "post" /\ th[t].frame = f

\* C6: every visit of a node whose Compute succeeded is, in this order: the
\* before-hooks on its fenced explicit inputs, implicit inputs and outputs,
\* Compute, the after-hooks on its fenced explicit inputs, implicit inputs
\* and outputs, the release of the values whose last consumer it is.
C6_VisitOrder ==
  \A f \in 1..Len(frames) :
     \A i \in 1..Len(frames[f].log) :
        /\ frames[f].log[i].hook = "Compute" /\ frames[f].log[i].arg = "OK"
        /\ ~VisitUnderWay(f, i)
        => VisitInOrder(frames[f].log, i)

C6_Witness ==
  \E t \in Threads :
     /\ FullRunReturnedOK(t) /\ exec_plan_size = MaxPlan
     /\ LET log == Frame(t).log
        IN \E i \in 1..Len(log) :
              /\ log[i].hook = "Compute" /\ log[i].arg = "OK"
              /\ NodeHasFence(log[i].node)
              /\ log[i].node = exec_plan_vec[MaxPlan].node_index
              /\ log[Len(log)].hook = "ReleaseMLValue"
              /\ log[i + 1].hook = "AfterUsedAsInput"

----------------------------------------------------------------------------
IsYieldAt(k) ==
  LET kernel == GetKernel(exec_plan_vec[k + 1].node_index)
  IN ~kernel.null /\ kernel.OpName = "YieldOp"

\* The plan's first YieldOp sits at position k > 0, and the kernels of the
\* positions up to `last' exist.
FirstYieldAt(k, last) ==
  /\ k > 0 /\ k < exec_plan_size /\ last < exec_plan_size
  /\ IsYieldAt(k)
  /\ \A p \in 0..last : ~GetKernel(exec_plan_vec[p + 1].node_index).null
  /\ \A p \in 0..(k - 1) : ~IsYieldAt(p)

\* The last call of thread t began a new partial run and returned OK.
NewPartialRunReturnedOK(t) ==
  ReturnedOK(t) /\ th[t].arg = DEFAULT_PARTIAL_RUN_ID /\ ~PruningInEffect

\* The last events of log are the before-hooks of node_index.
EndsWithBeforeHooksOf(log, node_index) ==
  LET slots == FencedSlots(node_index)
      b == Len(slots)
  IN /\ Len(log) >= b
     /\ \A j \in 1..b :
          IsHookOn(log[Len(log) - b + j],
                   IF slots[j][1] = "Output" THEN "BeforeUsingAsOutput" ELSE "BeforeUsingAsInput",
                   node_index, slots[j])

\* C7 as stated: when the first YieldOp of the plan is at position k > 0, the
\* first invocation of a new partial run computes positions 0..k, issues
\* the before-hooks of the node at k + 1 without computing it, and saves
\* cursor k + 1 (k + 2 with ownership transfer).
\* Refuted: the window ends before the YieldOp.
C7_FirstWindowIncludesYield ==
  \A t \in Threads : \A k \in 1..MaxPlan :
     NewPartialRunReturnedOK(t) /\ FirstYieldAt(k, k) =>
       /\ ComputedNodes(Frame(t).log) = PlanNodes(0, k + 1)
       /\ Frame(t).program_counter_ =
            (IF GetTransferIntermidiateTensorOwnership THEN k + 2 ELSE k + 1)

\* C7 amended: when the first YieldOp of the plan is at position k > 0, the
\* first invocation of a new partial run computes positions 0..k-1, issues
\* the before-hooks of the YieldOp at k without computing it, and saves
\* cursor k (k + 1 with ownership transfer).
C7_FirstWindowStopsAtYield ==
  \A t \in Threads : \A k \in 1..MaxPlan :
     NewPartialRunReturnedOK(t) /\ FirstYieldAt(k, k) =>
       /\ ComputedNodes(Frame(t).log) = PlanNodes(0, k)
       /\ EndsWithBeforeHooksOf(Frame(t).log, exec_plan_vec[k + 1].node_index)
       /\ Frame(t).log[Len(Frame(t).log)].hook = "BeforeUsingAsOutput"
       /\ Frame(t).program_counter_ =
            (IF GetTransferIntermidiateTensorOwnership THEN k + 1 ELSE k)

C7_Witness ==
  \E t \in Threads :
     /\ NewPartialRunReturnedOK(t) /\ FirstYieldAt(1, 1)
     /\ exec_plan_size > 2 /\ GetTransferIntermidiateTensorOwnership
     /\ Frame(t).program_counter_ = 2
     /\ Len(ComputedNodes(Frame(t).log)) = 1

----------------------------------------------------------------------------
\* The call of thread t began a new partial run and is under way.
StartingNewRun(t) == th[t].at # "idle" /\ th[t].arg = DEFAULT_PARTIAL_RUN_ID

\* The call of thread t has been assigned its run id.
HasRunId(t) == th[t].at \notin {"idle", "lock_new", "insert", "assign"}

\* C8: two concurrent calls that each start a new partial run get different
\* run ids and different frames, and neither frame is executed under the
\* other's id; the mutex is held only around the registry insert and erase.
C8_ConcurrentNewRunsAreApart ==
  /\ \A t \in Threads : \A u \in Threads \ {t} :
        StartingNewRun(t) /\ StartingNewRun(u) =>
          /\ th[t].frame # th[u].frame
          /\ HasRunId(t) /\ HasRunId(u) =>
               /\ th[t].run_id # th[u].run_id
               /\ Frame(t).alive /\ Frame(u).alive
               /\ Frame(t).users \subseteq {th[t].run_id}
               /\ Frame(u).users \subseteq {th[u].run_id}
  /\ \A t \in Threads :
        graph_runs_lock_ = t => th[t].at \in {"insert", "assign", "erase"}

C8_Witness ==
  \E t \in Threads : \E u \in Threads \ {t} :
     /\ StartingNewRun(t) /\ StartingNewRun(u)
     /\ th[t].at = "compute" /\ th[u].at = "compute"
     /\ th[t].run_id # th[u].run_id

----------------------------------------------------------------------------
\* C9: every access to the run registry (insert, lookup, erase) is made
\* with the registry's mutex held by the accessing thread.
\* Refuted: the lookup of a resumed run is made without the mutex, also while
\* another thread inserts or erases.
C9_RegistryAccessUnderMutex ==
  \A t \in Threads :
     th[t].at \in {"insert", "find", "erase"} => graph_runs_lock_ = t

----------------------------------------------------------------------------
\* C10: with either setting of the ownership-transfer flag, a successful
\* partial invocation whose window reached the end of the plan leaves no
\* registry entry for its run id, and one whose window stopped before the end
\* of the plan leaves the entry in place.
\* Refuted with ownership transfer enabled: the cursor steps over
\* exec_plan_size and the entry stays.
C10_EntryExistsWhileSuspended ==
  \A t \in Threads :
     ReturnedOK(t) /\ th[t].partial =>
       (th[t].program_counter_end = exec_plan_size
          <=> th[t].run_id \notin DOMAIN graph_runs_)

----------------------------------------------------------------------------
\* The partial run of thread t has an entry in the registry.
Registered(t) == th[t].partial /\ th[t].run_id \in DOMAIN graph_runs_

----------------------------------------------------------------------------
\* The last call of thread t has left Execute.
LeftExecute(t) == th[t].at = "idle" /\ th[t].ret.kind # "none"

\* The last call of thread t named a run by its id and got no frame for it.
GotNoFrame(t) ==
  th[t].arg \notin {DEFAULT_RUN_ID, DEFAULT_PARTIAL_RUN_ID} /\ th[t].frame = NoFrame

----------------------------------------------------------------------------
\* Thread t enters Execute in this step.
EntersExecute(t) ==
  th[t].at = "idle" /\ (th'[t].at # "idle" \/ th'[t].calls # th[t].calls)

\* The step leaves the registry, the counter and every live frame alone.
RegistryAndFramesUnchanged ==
  /\ graph_runs_' = graph_runs_
  /\ graph_runs_counter_' = graph_runs_counter_
  /\ Len(frames') = Len(frames)
  /\ \A f \in 1..Len(frames) : frames[f].alive => frames'[f] = frames[f]

FailsFatally(t) ==
  th'[t].at = "idle" /\ th'[t].ret.kind = "throw" /\ th'[t].frame = NoFrame

\* C13: Execute called with an explicit run id that has no registry entry
\* (never issued, or negative and no sentinel) fails fatally; no step of
\* the call computes a node, inserts an entry, or changes the counter or a
\* frame.
C13_UnknownRunIdFailsFatally ==
  [][\A t \in Threads :
       /\ EntersExecute(t)
          /\ th'[t].arg \notin {DEFAULT_RUN_ID, DEFAULT_PARTIAL_RUN_ID}
          /\ th'[t].arg < 0
          => FailsFatally(t) /\ RegistryAndFramesUnchanged
       /\ EntersExecute(t)
          /\ th'[t].arg >= 0 /\ th'[t].arg \notin DOMAIN graph_runs_
          => th'[t].at = "find" /\ RegistryAndFramesUnchanged
       /\ th[t].at = "find" /\ th[t].run_id \notin DOMAIN graph_runs_
          /\ th'[t].at # "find"
          => FailsFatally(t) /\ RegistryAndFramesUnchanged
    ]_vars

C13_Witness ==
  \E t \in Threads :
     /\ LeftExecute(t) /\ th[t].ret.kind = "throw" /\ th[t].frame = NoFrame
     /\ th[t].arg = NeverIssuedRunId
     /\ graph_runs_counter_ > 0
     /\ \E rid \in DOMAIN graph_runs_ :
           /\ frames[graph_runs_[rid]].alive
           /\ Len(frames[graph_runs_[rid]].log) > 0

----------------------------------------------------------------------------
\* C14: run ids handed out for new partial runs are strictly increasing and
\* never reused: outside the critical section of a new run, every key of the
\* registry is smaller than the counter, and no two frames were ever run
\* under one id.
\* Refuted once the counter has held INT64_MAX: it wraps below the keys it
\* handed out.
C14_RunIdsIncrease ==
  /\ graph_runs_lock_ = NoThread =>
       \A rid \in DOMAIN graph_runs_ : rid < graph_runs_counter_
  /\ \A f \in 1..Len(frames) : \A g \in 1..Len(frames) :
        f # g => frames[f].users \cap frames[g].users \subseteq {DEFAULT_RUN_ID}

----------------------------------------------------------------------------
\* C17: when the counter holds INT64_MAX, a request for a new partial run
\* aborts: the counter never wraps, and no call is handed the id INT64_MAX
\* or a wrapped id.
\* Refuted: ORT_ENFORCE(run_id < INT64_MAX) tests the caller's run_id, which
\* holds the sentinel, the id INT64_MAX is handed out and the counter
\* overflows.
C17_NoOverflowOfRunIds ==
  /\ graph_runs_counter_ >= 0
  /\ \A t \in Threads :
        th[t].arg = DEFAULT_PARTIAL_RUN_ID /\ HasRunId(t) =>
          th[t].run_id >= 0 /\ th[t].run_id < INT64_MAX

----------------------------------------------------------------------------
\* The last call of thread t was a partial-run invocation that ended in a
\* compute failure or in termination.
PartialRunAborted(t) ==
  /\ ReturnedStatus(t) /\ th[t].partial /\ th[t].frame # NoFrame
  /\ ~IsOK(th[t].compute_status) \/ th[t].ret.status = TerminatedStatus

\* What the window did on the frame before it stopped at position upto is
\* on the frame: each node computed, and the values it frees released.
WindowEffectsKept(log, from, upto) ==
  \A p \in from..(upto - 1) :
     LET plan == exec_plan_vec[p + 1]
     IN ~SkipNode(plan.node_index) =>
          /\ \E i \in 1..Len(log) :
                log[i].hook = "Compute" /\ log[i].node = plan.node_index /\ log[i].arg = "OK"
          /\ \A v \in plan.free_from_index..plan.free_to_index :
                \E i \in 1..Len(log) :
                   /\ log[i].hook = "ReleaseMLValue" /\ log[i].node = plan.node_index
                   /\ log[i].index = session_state.to_be_freed[v + 1]

\* C15: a partial-run invocation that ends in a compute failure or in
\* termination leaves the frame as it is: the registry entry is in place, the
\* saved cursor is the cursor the invocation started with, and what the
\* window computed and released before the failure stays so.
C15_FailureLeavesFrameAsIs ==
  \A t \in Threads :
     PartialRunAborted(t) =>
       /\ th[t].run_id \in DOMAIN graph_runs_
       /\ graph_runs_[th[t].run_id] = th[t].frame
       /\ Frame(t).alive
       /\ Frame(t).program_counter_ = th[t].program_counter_start
       /\ Len(Frame(t).log) >= th[t].log0
       /\ WindowEffectsKept(Frame(t).log, th[t].program_counter_start, th[t].program_counter)

C15_Witness ==
  \E t \in Threads :
     /\ PartialRunAborted(t) /\ th[t].ret.status = TerminatedStatus
     /\ th[t].program_counter_start > 0
     /\ th[t].program_counter > th[t].program_counter_start
     /\ Frame(t).log[Len(Frame(t).log)].hook = "ReleaseMLValue"

----------------------------------------------------------------------------
\* The last call of thread t ended in a compute failure or a missing kernel.
ModelFailed(t) ==
  /\ ReturnedStatus(t) /\ ~IsOK(th[t].ret.status)
  /\ \/ ~IsOK(th[t].compute_status)
     \/ th[t].ret.status.msg[1] = "Got nullptr from GetKernel for node: "

\* C16 as stated: the status returned for termination differs, in category
\* or code, from every status a compute failure or a missing kernel produces.
\* Refuted: a missing kernel, and a kernel that fails with (ONNXRUNTIME,
\* FAIL), return the category and code of termination.
C16_TerminationHasOwnDesignation ==
  \A t \in Threads :
     ModelFailed(t) =>
       \/ th[t].ret.status.category # TerminatedStatus.category
       \/ th[t].ret.status.code # TerminatedStatus.code

\* C16 amended: the status returned for termination has category ONNXRUNTIME
\* and code FAIL, as the status of a missing kernel has and the status of a
\* failed Compute may have; it differs from those in its message only.
C16_TerminationDiffersByMessage ==
  [][\A t \in Threads :
       /\ th[t].at = "loop" /\ th'[t].at = "idle" =>
            LET node_index == exec_plan_vec[th[t].program_counter + 1].node_index
            IN /\ th'[t].ret.status.category = "ONNXRUNTIME"
               /\ th'[t].ret.status.code = "FAIL"
               /\ terminate_flag_ => th'[t].ret.status = TerminatedStatus
               /\ ~terminate_flag_ =>
                    /\ th'[t].ret.status = MissingKernelStatus(node_index)
                    /\ th'[t].ret.status.msg # TerminatedStatus.msg
       /\ th[t].at = "compute" /\ th'[t].at = "idle" =>
            /\ th'[t].ret.status.category = th'[t].compute_status.category
            /\ th'[t].ret.status.code = th'[t].compute_status.code
            /\ th'[t].ret.status.msg # TerminatedStatus.msg
    ]_vars

C16_Witness ==
  \E t \in Threads :
     /\ ReturnedStatus(t) /\ th[t].ret.status = TerminatedStatus
     /\ ~th[t].partial /\ th[t].program_counter > 0
     /\ th[t].ret.status.category = "ONNXRUNTIME"

----------------------------------------------------------------------------
\* The node at plan position p is a suspension operator.
NodeIsYieldOp(p) == GetNode(exec_plan_vec[p + 1].node_index).OpType = "YieldOp"

\* The smallest position after c whose node is a YieldOp, or the plan's size.
FirstYieldAfter(c) ==
  LET later == {p \in (c + 1)..(exec_plan_size - 1) : NodeIsYieldOp(p)}
  IN IF later = {} THEN exec_plan_size
     ELSE CHOOSE p \in later : \A q \in later : p <= q

\* The partial-run call of thread t has determined its window.
HasWindow(t) ==
  /\ th[t].partial /\ th[t].frame # NoFrame
  /\ th[t].at \in {"loop", "compute", "post", "tail", "lock_erase", "erase", "idle"}

\* Every node from position c to position e has a kernel.
KernelsExist(c, e) ==
  \A p \in c..Min(e, exec_plan_size - 1) : ~GetKernel(exec_plan_vec[p + 1].node_index).null

\* C18: for a frame with saved cursor c < exec_plan_size (the kernels of the
\* nodes scanned existing), the window ends at the smallest position e > c
\* whose node is a YieldOp, or at exec_plan_size; the window [c, e) holds at
\* least one node, also when the node at c is a YieldOp.
C18_WindowEndsAtNextYield ==
  \A t \in Threads :
     /\ HasWindow(t)
     /\ th[t].program_counter_start < exec_plan_size
     /\ KernelsExist(th[t].program_counter_start, FirstYieldAfter(th[t].program_counter_start))
     => /\ th[t].program_counter_end = FirstYieldAfter(th[t].program_counter_start)
        /\ th[t].program_counter_end > th[t].program_counter_start

C18_Witness ==
  \E t \in Threads :
     /\ HasWindow(t) /\ ReturnedOK(t)
     /\ th[t].program_counter_start >= 1
     /\ th[t].program_counter_start < exec_plan_size
     /\ NodeIsYieldOp(th[t].program_counter_start)
     /\ KernelsExist(th[t].program_counter_start, exec_plan_size)
     /\ th[t].program_counter_end > th[t].program_counter_start + 1

----------------------------------------------------------------------------
\* The nodes computed by the last invocation of thread t.
ComputedInWindow(t) ==
  ComputedNodes(SubSeq(Frame(t).log, th[t].log0 + 1, Len(Frame(t).log)))

\* The last call of thread t was a partial invocation that returned OK, whose
\* window started at a YieldOp directly followed by another YieldOp.
StartedAtTwoYieldOps(t) ==
  /\ ReturnedOK(t) /\ HasWindow(t) /\ ~PruningInEffect
  /\ th[t].program_counter_start + 1 < exec_plan_size
  /\ NodeIsYieldOp(th[t].program_counter_start)
  /\ NodeIsYieldOp(th[t].program_counter_start + 1)
  /\ KernelsExist(th[t].program_counter_start, th[t].program_counter_start + 1)

\* C19 as stated: when the node at the saved cursor is a YieldOp and the
\* node after it is a YieldOp too, one partial invocation computes both.
\* Refuted: the scan stops at the second YieldOp.
C19_BothYieldOpsInOneWindow ==
  \A t \in Threads :
     StartedAtTwoYieldOps(t) =>
       \A p \in {th[t].program_counter_start, th[t].program_counter_start + 1} :
          \E i \in 1..Len(ComputedInWindow(t)) :
             ComputedInWindow(t)[i] = exec_plan_vec[p + 1].node_index

\* C19 amended: when the node at the saved cursor is a YieldOp and the node
\* after it is a YieldOp too, one partial invocation computes the first only:
\* the window ends at the second, whose before-hooks are issued without
\* computing it.
C19_SecondYieldOpEndsTheWindow ==
  \A t \in Threads :
     StartedAtTwoYieldOps(t) =>
       /\ th[t].program_counter_end = th[t].program_counter_start + 1
       /\ ComputedInWindow(t) =
            <<exec_plan_vec[th[t].program_counter_start + 1].node_index>>
       /\ EndsWithBeforeHooksOf(Frame(t).log,
                                exec_plan_vec[th[t].program_counter_start + 2].node_index)

C19_Witness ==
  \E t \in Threads :
     /\ StartedAtTwoYieldOps(t)
     /\ th[t].program_counter_start >= 1
     /\ Len(ComputedInWindow(t)) = 1

----------------------------------------------------------------------------
\* No call is under way on frame f.
BetweenInvocations(f) == \A t \in Threads : th[t].at = "idle" \/ th[t].frame # f

\* C20: the saved cursor of every frame the registry holds between
\* invocations (none of which failed) is at least 0 and less than
\* exec_plan_size, with either setting of the ownership-transfer flag.
\* Refuted with ownership transfer enabled: a window that ends at
\* exec_plan_size leaves the frame registered with cursor exec_plan_size + 1.
C20_RegisteredCursorInsidePlan ==
  \A rid \in DOMAIN graph_runs_ :
     LET f == graph_runs_[rid]
     IN BetweenInvocations(f) /\ ~frames[f].failed =>
          /\ frames[f].program_counter_ >= 0
          /\ frames[f].program_counter_ < exec_plan_size

----------------------------------------------------------------------------
\* Thread t is at the top of a loop iteration for a plan entry of its window.
AtEntryTop(t) ==
  th[t].at = "loop" /\ th[t].program_counter < th[t].program_counter_end

\* Thread t takes the step at the top of the iteration.
TakesEntryTop(t) ==
  AtEntryTop(t) /\ (th'[t].at # "loop" \/ th'[t].program_counter # th[t].program_counter)

\* C21: the termination flag is read once per plan entry, at the top of the
\* iteration, before pruning, kernel lookup, hooks and Compute: an iteration
\* that begins with the flag set returns the terminated status and does
\* nothing else, whatever the entry; an iteration that passed the test does
\* not come back to it.  So once the flag is set, only a call that is between
\* the test and its Compute starts a Compute, one, before it returns.
C21_FlagReadAtTopOfEachEntry ==
  [][\A t \in Threads :
       /\ TakesEntryTop(t) /\ terminate_flag_ =>
            /\ th'[t].at = "idle"
            /\ th'[t].ret.status = TerminatedStatus
            /\ frames'[th[t].frame].log = frames[th[t].frame].log
       /\ TakesEntryTop(t) /\ ~terminate_flag_ => th'[t].ret.status # TerminatedStatus
       /\ th[t].at \in {"compute", "post"} /\ th'[t].at = "idle" =>
            th'[t].ret.status # TerminatedStatus
       /\ th[t].at = "compute" /\ th'[t].at # "compute" => th'[t].at \in {"post", "idle"}
       /\ th[t].at = "post" /\ th'[t].at # "post" =>
            /\ th'[t].at = "loop"
            /\ th'[t].program_counter = th[t].program_counter + 1
    ]_vars

C21_Witness ==
  \E t \in Threads :
     /\ ReturnedStatus(t) /\ th[t].ret.status = TerminatedStatus
     /\ ~th[t].term0 /\ terminate_flag_
     /\ th[t].program_counter > th[t].program_counter_start
     /\ th[t].program_counter < th[t].program_counter_end
     /\ SkipNode(exec_plan_vec[th[t].program_counter + 1].node_index)

----------------------------------------------------------------------------
\* The node is outside the reachability set of the requested fetches.
OutsideFetchPath(node_index) == node_index \notin GetToBeExecutedNodes.nodes

\* What the last invocation of thread t did on its frame.
WindowLog(t) == SubSeq(Frame(t).log, th[t].log0 + 1, Len(Frame(t).log))

\* The last call of thread t ran its window to the end with pruning in effect.
PrunedWindowDone(t) ==
  ReturnedOK(t) /\ th[t].frame # NoFrame /\ PruningInEffect

----------------------------------------------------------------------------
\* The values of to_be_freed in the range of the plan entry at position p.
ValuesFreedAt(p) ==
  { session_state.to_be_freed[v + 1] :
      v \in exec_plan_vec[p + 1].free_from_index..exec_plan_vec[p + 1].free_to_index }

\* Every release on the log was made by a node after its Compute succeeded.
ReleasedByComputedNodes(log) ==
  \A j \in 1..Len(log) :
     log[j].hook = "ReleaseMLValue" =>
       \E i \in 1..(j - 1) :
          log[i].hook = "Compute" /\ log[i].node = log[j].node /\ log[i].arg = "OK"

\* C23: a plan entry skipped by pruning skips its releases too: in a full
\* run with pruning in effect, the values in the range of a pruned entry are
\* never released, those in the range of a computed entry are released once,
\* and a value is released only by an entry that was computed.
C23_PrunedEntriesReleaseNothing ==
  /\ \A f \in 1..Len(frames) : ReleasedByComputedNodes(frames[f].log)
  /\ \A t \in Threads :
        FullRunReturnedOK(t) /\ PruningInEffect =>
          \A p \in 0..(exec_plan_size - 1) : \A value \in ValuesFreedAt(p) :
             Cardinality(ReleasesOf(Frame(t).log, value)) =
               (IF OutsideFetchPath(exec_plan_vec[p + 1].node_index) THEN 0 ELSE 1)

C23_Witness ==
  \E t \in Threads :
     /\ FullRunReturnedOK(t) /\ PruningInEffect /\ exec_plan_size = MaxPlan
     /\ \E p \in 0..(exec_plan_size - 1) : \E value \in ValuesFreedAt(p) :
           /\ OutsideFetchPath(exec_plan_vec[p + 1].node_index)
           /\ ReleasesOf(Frame(t).log, value) = {}
     /\ Frame(t).log[Len(Frame(t).log)].hook = "ReleaseMLValue"

----------------------------------------------------------------------------
\* The plan position of the first kernel-less node that the scan for the end
\* of a window starting at program_counter_ inspects: the scan has not met
\* the "YieldOp" that ends it before that position.
MissingKernelInScan(program_counter_) ==
  { q \in program_counter_..(exec_plan_size - 1) :
      /\ GetKernel(exec_plan_vec[q + 1].node_index).null
      /\ \A p \in program_counter_..(q - 1) :
            /\ ~GetKernel(exec_plan_vec[p + 1].node_index).null
            /\ p > program_counter_ =>
                 GetKernel(exec_plan_vec[p + 1].node_index).OpName # "YieldOp" }

\* The call of thread t returns the status for the missing kernel of the
\* node at plan position p in this step, with nothing added to the log.
FailsOnMissingKernel(t, p) ==
  /\ ~crashed'
  /\ th'[t].at = "idle"
  /\ th'[t].ret = [kind |-> "status",
                   status |-> MissingKernelStatus(exec_plan_vec[p + 1].node_index)]
  /\ frames'[th[t].frame].log = frames[th[t].frame].log

\* C24: a plan entry without a kernel that the run reaches, as a node of the
\* window, as a node inspected by the scan for the window's end or as the
\* node of the fence-wait-only pass, makes the invocation return the failure
\* status that names the node, with no hook and no Compute added, and makes
\* it fail in no other way.
C24_MissingKernelFailsTheRun ==
  [][\A t \in Threads :
       /\ ( /\ At(t, "scan") /\ Frame(t).alive
            /\ MissingKernelInScan(Frame(t).program_counter_) # {}
            /\ (th'[t] # th[t] \/ crashed') )
          => \E q \in MissingKernelInScan(Frame(t).program_counter_) :
                FailsOnMissingKernel(t, q)
       /\ ( /\ At(t, "loop") /\ th[t].program_counter < th[t].program_counter_end
            /\ ~terminate_flag_
            /\ ~SkipNode(NodeExecPlan(t).node_index)
            /\ GetKernel(NodeExecPlan(t).node_index).null
            /\ th'[t] # th[t] )
          => FailsOnMissingKernel(t, th[t].program_counter)
       /\ ( /\ At(t, "tail") /\ th[t].partial
            /\ FenceWaitMissingKernel(th[t].program_counter_end)
            /\ th'[t] # th[t] )
          => \/ FailsOnMissingKernel(t, th[t].program_counter_end)
             \/ th'[t].ret.status = PatternsFailure
    ]_vars

----------------------------------------------------------------------------
\* The memory type declared for an implicit input itself.  Kernel definitions
\* declare memory types by the index of an explicit input
\* (.InputMemoryType(type, index)); an implicit input has no declaration and
\* so the default type.
ImplicitInputMemoryType(kernel, input_index) == "OrtMemTypeDefault"

\* The provider a before-hook is due, from the memory type declared for the
\* slot it is issued for.
ProviderByMemoryType(kernel, memory_type) ==
  IF memory_type = "OrtMemTypeCPUInput" THEN kCpuExecutionProvider ELSE kernel.Provider

\* C25: BeforeUsingAsInput receives the node's provider, replaced by the CPU
\* provider exactly when the kernel declares that input as host memory; for
\* an implicit input the memory type is the one declared for the implicit
\* input itself, not the one of the explicit input with the same index.
\* BeforeUsingAsOutput receives the node's own provider.
C25_ProviderByOwnMemoryType ==
  \A f \in 1..Len(frames) : \A j \in 1..Len(frames[f].log) :
     LET e == frames[f].log[j]
         k == GetKernel(e.node)
     IN /\ e.hook = "BeforeUsingAsOutput" => e.provider = k.Provider
        /\ e.hook = "BeforeUsingAsInput" /\ e.arg = "Input" =>
             e.provider = ProviderByMemoryType(k, InputMemoryType(k, e.index))
        /\ e.hook = "BeforeUsingAsInput" /\ e.arg = "ImplicitInput" =>
             e.provider = ProviderByMemoryType(k, ImplicitInputMemoryType(k, e.index))

----------------------------------------------------------------------------
IsBeforeHook(e) == e.hook \in {"BeforeUsingAsInput", "BeforeUsingAsOutput"}
IsAfterHook(e) == e.hook \in {"AfterUsedAsInput", "AfterUsedAsOutput"}
SameAccess(e1, e2) == e1.node = e2.node /\ e1.arg = e2.arg /\ e1.index = e2.index

\* On the log, the hooks of each node on each slot go before, after, before,
\* after, ...
HooksAlternate(log) ==
  \A i \in 1..Len(log) : \A j \in (i + 1)..Len(log) :
     /\ SameAccess(log[i], log[j])
     /\ \/ IsBeforeHook(log[i]) /\ IsBeforeHook(log[j])
        \/ IsAfterHook(log[i]) /\ IsAfterHook(log[j])
     => \E m \in (i + 1)..(j - 1) :
           /\ SameAccess(log[i], log[m])
           /\ IsBeforeHook(log[m]) # IsBeforeHook(log[i])
           /\ IsBeforeHook(log[m]) \/ IsAfterHook(log[m])

\* C26: for every run, every node and every fenced slot, before-hooks and
\* after-hooks strictly alternate: a before-hook is followed by the matching
\* after-hook before the next before-hook of that node on that slot, across
\* compute failures and across the fence-wait-only pass followed by a resume.
C26_HooksStrictlyAlternate ==
  \A f \in 1..Len(frames) : HooksAlternate(frames[f].log)

----------------------------------------------------------------------------
\* This step is taken by the call of thread t, a full run.
FullRunStep(t) == th'[t] # th[t] /\ th'[t].arg = DEFAULT_RUN_ID

RegisteredCursors ==
  [rid \in DOMAIN graph_runs_ |-> frames[graph_runs_[rid]].program_counter_]

\* C27: a full run changes no shared run state: no step of it, whether the
\* run succeeds or fails, changes the registry, the run-id counter or the
\* cursor of a registered frame, and the caller's run_id is the sentinel
\* throughout and on return.
C27_FullRunLeavesRunStateAlone ==
  [][\A t \in Threads :
       FullRunStep(t) =>
         /\ graph_runs_' = graph_runs_
         /\ graph_runs_counter_' = graph_runs_counter_
         /\ graph_runs_lock_' = graph_runs_lock_
         /\ RegisteredCursors' = RegisteredCursors
         /\ th'[t].run_id = DEFAULT_RUN_ID
         /\ th'[t].at = "idle" => th'[t].ret.kind = "status"
    ]_vars

C27_Witness ==
  \E t \in Threads :
     /\ ReturnedStatus(t) /\ th[t].arg = DEFAULT_RUN_ID /\ th[t].run_id = DEFAULT_RUN_ID
     /\ ~IsOK(th[t].ret.status)
     /\ Len(Frame(t).log) > 0
     /\ graph_runs_counter_ > 0
     /\ \E rid \in DOMAIN graph_runs_ :
           /\ RegisteredCursors[rid] > 0
           /\ RegisteredCursors[rid] < exec_plan_size

----------------------------------------------------------------------------
\* The positions of the log at which the Compute of node_index was carried
\* out (a Compute that failed is not counted).
ComputesOf(log, node_index) ==
  {j \in 1..Len(log) :
     log[j].hook = "Compute" /\ log[j].node = node_index /\ log[j].arg = "OK"}

\* C28: over the invocations made on one run identifier, retries after a
\* compute failure or a termination included, no plan entry is computed more
\* than once and no value of to_be_freed is released more than once.
C28_NothingTwicePerRun ==
  \A rid \in DOMAIN graph_runs_ :
     LET log == frames[graph_runs_[rid]].log
     IN /\ \A p \in 0..(exec_plan_size - 1) :
              Cardinality(ComputesOf(log, exec_plan_vec[p + 1].node_index)) <= 1
        /\ \A i \in 1..Len(session_state.to_be_freed) :
              Cardinality(ReleasesOf(log, session_state.to_be_freed[i])) <= 1

====
